---- MODULE Spec2Model ----
(***************************************************************************)
(* Model of swc_async_require_plugin/src/lib.rs: AsyncRequireTransform,    *)
(* the visitor that rewrites the top-level items of an ECMAScript module   *)
(* (imports, exports) and renames loader calls inside plain statements.    *)
(*                                                                         *)
(* The syntax tree is modelled by records carrying a "type" field; an      *)
(* Option<T> is a sequence of length 0 (None) or 1 (Some).  Spans are      *)
(* left out: the transform sets them to DUMMY_SP and never reads them.     *)
(***************************************************************************)
EXTENDS Integers, Sequences, FiniteSets, TLC

(***************************************************************************)
(* Bounds of the model.                                                    *)
(***************************************************************************)
\* longest module body built from CoreItems
MaxItems == 3
\* longest specifier list of an import or of an export
MaxSpecs == 2

(***************************************************************************)
(* Syntax tree constructors (swc_core::ecma::ast as lib.rs uses it).       *)
(***************************************************************************)
None == <<>>
Some(x) == <<x>>

Ident(sym) == [type |-> "Ident", sym |-> sym]
Str(value) == [type |-> "Str", value |-> value]
Num(value) == [type |-> "Num", value |-> value]
CalleeExpr(expr) == [type |-> "CalleeExpr", expr |-> expr]
CalleeImport == [type |-> "CalleeImport"]
CallExpr(callee, args) == [type |-> "Call", callee |-> callee, args |-> args]
MemberExpr(obj, prop) == [type |-> "Member", obj |-> obj, prop |-> prop]
AwaitExpr(arg) == [type |-> "Await", arg |-> arg]
AssignExpr(left, right) == [type |-> "Assign", left |-> left, right |-> right]
Function(body) == [type |-> "Function", body |-> body]
Class(body) == [type |-> "ClassBody", body |-> body]
ClassMethod(key, function) == [type |-> "ClassMethod", key |-> key, function |-> function]
FnExpr(ident, function) == [type |-> "Fn", ident |-> ident, function |-> function]
ClassExpr(ident, class) == [type |-> "Class", ident |-> ident, class |-> class]

PatIdent(id) == [type |-> "PatIdent", id |-> id]
PatObject(props) == [type |-> "PatObject", props |-> props]
VarDeclarator(name, init) == [type |-> "VarDeclarator", name |-> name, init |-> init]

ExprStmt(expr) == [type |-> "ExprStmt", expr |-> expr]
VarDecl(kind, decls) == [type |-> "VarDecl", kind |-> kind, decls |-> decls]
FnDecl(ident, function) == [type |-> "FnDecl", ident |-> ident, function |-> function]
ClassDecl(ident, class) == [type |-> "ClassDecl", ident |-> ident, class |-> class]

ImportDefault(local) == [type |-> "ImportDefault", local |-> local]
ImportNamed(local, imported) == [type |-> "ImportNamed", local |-> local, imported |-> imported]
ImportNamespace(local) == [type |-> "ImportNamespace", local |-> local]
ExportSpecNamed(orig, exported) == [type |-> "ExportNamedSpec", orig |-> orig, exported |-> exported]
ExportSpecNamespace(name) == [type |-> "ExportNamespaceSpec", name |-> name]
ExportSpecDefault(exported) == [type |-> "ExportDefaultSpec", exported |-> exported]

DefaultExpr(expr) == [type |-> "DefaultExpr", expr |-> expr]
DefaultFn(ident, function) == [type |-> "DefaultFn", ident |-> ident, function |-> function]
DefaultClass(ident, class) == [type |-> "DefaultClass", ident |-> ident, class |-> class]

StmtItem(stmt) == [type |-> "Stmt", stmt |-> stmt]
Import(specifiers, src) == [type |-> "Import", specifiers |-> specifiers, src |-> src]
ExportDefaultDecl(decl) == [type |-> "ExportDefaultDecl", decl |-> decl]
ExportNamed(decl, specifiers, src) == [type |-> "ExportNamed", decl |-> decl, specifiers |-> specifiers, src |-> src]
ExportAll(src) == [type |-> "ExportAll", src |-> src]

(***************************************************************************)
(* Sequence helpers.                                                       *)
(***************************************************************************)
RECURSIVE Flatten(_)
Flatten(ss) == IF ss = <<>> THEN <<>> ELSE Head(ss) \o Flatten(Tail(ss))

MapSeq(Op(_), s) == [k \in 1..Len(s) |-> Op(s[k])]

(***************************************************************************)
(* The call-site rewriter: visit_mut_call_expr, reached through the        *)
(* default traversal of VisitMut.  The override does not visit the         *)
(* children of the call it is given.                                       *)
(***************************************************************************)
visit_mut_call_expr(n) ==
    LET renamed ==
            IF /\ n.callee.type = "CalleeExpr"
               /\ n.callee.expr.type = "Ident"
               /\ n.callee.expr.sym = "require"
            THEN [n EXCEPT !.callee = CalleeExpr(Ident("__require__"))]
            ELSE n
    IN  IF renamed.callee.type = "CalleeImport"
        THEN [renamed EXCEPT !.callee = CalleeExpr(Ident("__import__"))]
        ELSE renamed

RECURSIVE visit_mut_expr(_)
RECURSIVE visit_mut_stmt(_)

visit_mut_function(f) == [f EXCEPT !.body = MapSeq(visit_mut_stmt, f.body)]

visit_mut_class_member(m) == [m EXCEPT !.function = visit_mut_function(m.function)]

visit_mut_class(c) == [c EXCEPT !.body = MapSeq(visit_mut_class_member, c.body)]

visit_mut_expr(e) ==
    CASE e.type = "Call"   -> visit_mut_call_expr(e)
      [] e.type = "Member" -> [e EXCEPT !.obj = visit_mut_expr(e.obj)]
      [] e.type = "Await"  -> [e EXCEPT !.arg = visit_mut_expr(e.arg)]
      [] e.type = "Assign" -> [e EXCEPT !.left = visit_mut_expr(e.left),
                                        !.right = visit_mut_expr(e.right)]
      [] e.type = "Fn"     -> [e EXCEPT !.function = visit_mut_function(e.function)]
      [] e.type = "Class"  -> [e EXCEPT !.class = visit_mut_class(e.class)]
      [] OTHER             -> e

visit_mut_var_declarator(d) == [d EXCEPT !.init = MapSeq(visit_mut_expr, d.init)]

visit_mut_stmt(s) ==
    CASE s.type = "ExprStmt"  -> [s EXCEPT !.expr = visit_mut_expr(s.expr)]
      [] s.type = "VarDecl"   -> [s EXCEPT !.decls = MapSeq(visit_mut_var_declarator, s.decls)]
      [] s.type = "FnDecl"    -> [s EXCEPT !.function = visit_mut_function(s.function)]
      [] s.type = "ClassDecl" -> [s EXCEPT !.class = visit_mut_class(s.class)]
      [] OTHER                -> s

(***************************************************************************)
(* Expressions the arms of visit_mut_program build.                        *)
(***************************************************************************)
\* __require__('<src>') as the Import arm builds it
require_call(src) == CallExpr(CalleeExpr(Ident("__require__")), <<Str(src.value)>>)

\* module.exports.<name> = <right>
module_exports_assign(name, right) ==
    AssignExpr(MemberExpr(MemberExpr(Ident("module"), Ident("exports")), Ident(name)), right)

\* imported_name with the alias ignored: the property is the local name
imported_name_ignoring_alias(named_spec) == named_spec.local.sym

\* the name a named import specifier reads from the loaded module
imported_name(named_spec) ==
    IF named_spec.imported = None THEN named_spec.local.sym
    ELSE IF named_spec.imported[1].type = "Ident" THEN named_spec.imported[1].sym
    ELSE named_spec.imported[1].value

\* the declarator pushed to decls for one import specifier
import_declarator(spec, src) ==
    CASE spec.type = "ImportDefault" ->
            VarDeclarator(PatIdent(spec.local), Some(AwaitExpr(require_call(src))))
      [] spec.type = "ImportNamed" ->
            VarDeclarator(PatIdent(spec.local),
                          Some(MemberExpr(AwaitExpr(require_call(src)), Ident(imported_name(spec)))))
      [] spec.type = "ImportNamespace" ->
            VarDeclarator(PatIdent(spec.local), Some(AwaitExpr(require_call(src))))

(***************************************************************************)
(* What each arm of the match in visit_mut_program pushes to new_body.     *)
(***************************************************************************)
import_items(import_decl) ==
    IF import_decl.specifiers # <<>>
    THEN <<StmtItem(VarDecl("const",
               MapSeq(LAMBDA spec : import_declarator(spec, import_decl.src), import_decl.specifiers)))>>
    ELSE <<StmtItem(ExprStmt(AwaitExpr(require_call(import_decl.src))))>>

stmt_items(stmt) == <<StmtItem(visit_mut_stmt(stmt))>>

\* export_default_payload with the optional name of a function or class lost
export_default_payload_anonymous(decl) ==
    CASE decl.type = "DefaultExpr"  -> decl.expr
      [] decl.type = "DefaultFn"    -> FnExpr(None, decl.function)
      [] decl.type = "DefaultClass" -> ClassExpr(None, decl.class)

export_default_payload(decl) ==
    CASE decl.type = "DefaultExpr"  -> decl.expr
      [] decl.type = "DefaultFn"    -> FnExpr(decl.ident, decl.function)
      [] decl.type = "DefaultClass" -> ClassExpr(decl.ident, decl.class)

export_default_items(ed) ==
    <<StmtItem(ExprStmt(module_exports_assign("default", export_default_payload(ed.decl))))>>

export_var_assigns(vd) ==
    IF vd.name.type = "PatIdent"
    THEN <<StmtItem(ExprStmt(module_exports_assign(vd.name.id.sym, Ident(vd.name.id.sym))))>>
    ELSE <<>>

export_var_items(var_decl) ==
    <<StmtItem(var_decl)>> \o Flatten(MapSeq(export_var_assigns, var_decl.decls))

export_fn_items(fn_decl) ==
    <<StmtItem(fn_decl),
      StmtItem(ExprStmt(module_exports_assign(fn_decl.ident.sym, Ident(fn_decl.ident.sym))))>>

export_other_decl_items(named) == <<named>>

\* the element the Namespace branch pushes to the local vector assigns
empty_export == ExportNamed(None, <<>>, None)

\* the local vector assigns at the end of the specifier loop; it is never
\* appended to new_body
export_specifier_assigns(specifiers) ==
    SelectSeq(MapSeq(LAMBDA spec : IF spec.type = "ExportNamespaceSpec" THEN empty_export ELSE None,
                     specifiers),
              LAMBDA x : x # None)

\* export_specifier_push with the exported and the local name exchanged
export_specifier_push_swapped(spec) ==
    IF spec.type = "ExportNamespaceSpec" THEN <<>>
    ELSE IF spec.type = "ExportNamedSpec"
         THEN <<StmtItem(ExprStmt(module_exports_assign(spec.orig.sym, Ident(spec.exported.sym))))>>
         ELSE <<>>

export_specifier_push(spec) ==
    IF spec.type = "ExportNamespaceSpec" THEN <<>>
    ELSE IF spec.type = "ExportNamedSpec"
         THEN <<StmtItem(ExprStmt(module_exports_assign(spec.exported.sym, Ident(spec.orig.sym))))>>
         ELSE <<>>

export_specifier_items(named) == Flatten(MapSeq(export_specifier_push, named.specifiers))

\* other_items with the declaration dropped instead of pushed
other_items_dropped(other) == <<>>

other_items(other) == <<other>>

\* the arm of the nested match that takes a module item
ArmOf(item) ==
    CASE item.type = "Import" -> "Import"
      [] item.type = "Stmt" -> "Stmt"
      [] item.type = "ExportDefaultDecl" -> "ExportDefaultDecl"
      [] item.type = "ExportNamed" ->
            IF item.decl # None
            THEN CASE item.decl[1].type = "VarDecl" -> "ExportVar"
                   [] item.decl[1].type = "FnDecl" -> "ExportFn"
                   [] OTHER -> "ExportOtherDecl"
            ELSE "ExportSpecifiers"
      [] OTHER -> "Other"

\* the items one iteration of the loop pushes for item
Expand(item) ==
    CASE ArmOf(item) = "Import" -> import_items(item)
      [] ArmOf(item) = "Stmt" -> stmt_items(item.stmt)
      [] ArmOf(item) = "ExportDefaultDecl" -> export_default_items(item)
      [] ArmOf(item) = "ExportVar" -> export_var_items(item.decl[1])
      [] ArmOf(item) = "ExportFn" -> export_fn_items(item.decl[1])
      [] ArmOf(item) = "ExportOtherDecl" -> export_other_decl_items(item)
      [] ArmOf(item) = "ExportSpecifiers" -> export_specifier_items(item)
      [] ArmOf(item) = "Other" -> other_items(item)

\* visit_mut_program as a function of the program
visit_mut_program(program) ==
    IF program.kind = "Module"
    THEN [program EXCEPT !.body = Flatten(MapSeq(Expand, program.body))]
    ELSE program

(***************************************************************************)
(* Input programs.                                                         *)
(***************************************************************************)
\* sequences over S of length at most n without a repeated element
InjSeqs(S, n) ==
    UNION { { q \in [1..k -> S] : \A x, y \in 1..k : x # y => q[x] # q[y] } : k \in 0..n }

SeqsUpTo(S, n) == UNION { [1..k -> S] : k \in 0..n }

Bar == Str("bar")

Callees ==
    { CalleeExpr(Ident("require")), CalleeExpr(Ident("f")), CalleeImport,
      CalleeExpr(MemberExpr(Ident("obj"), Ident("require"))) }

\* require('bar'), f('bar'), import('bar'), obj.require('bar')
Calls1 == { CallExpr(c, <<Bar>>) : c \in Callees }

\* a call in the argument or in the callee of another call
Calls2 ==
    { CallExpr(c, <<e>>) : c \in Callees, e \in Calls1 }
        \cup { CallExpr(CalleeExpr(e), <<>>) : e \in Calls1 }
        \cup { CallExpr(CalleeExpr(MemberExpr(e, Ident("then"))), <<Ident("f")>>) : e \in Calls1 }

Exprs ==
    Calls1 \cup Calls2
        \cup { AwaitExpr(e) : e \in Calls1 }
        \cup { MemberExpr(e, Ident("x")) : e \in Calls1 }
        \cup { AssignExpr(Ident("x"), e) : e \in Calls1 }
        \cup { FnExpr(None, Function(<<ExprStmt(e)>>)) : e \in Calls1 }
        \cup { Ident("x"), Num(1) }

Stmts ==
    { ExprStmt(e) : e \in Exprs }
        \cup { VarDecl("const", <<VarDeclarator(PatIdent(Ident("x")), Some(e))>>) : e \in Calls1 \cup Calls2 }
        \cup { FnDecl(Ident("g"), Function(<<ExprStmt(e)>>)) : e \in Calls1 }
        \cup { ClassDecl(Ident("K"), Class(<<ClassMethod("m", Function(<<ExprStmt(e)>>))>>)) : e \in Calls1 }

ImportSpecifiers ==
    { ImportDefault(Ident("d")),
      ImportNamed(Ident("a"), None),
      ImportNamed(Ident("b"), Some(Ident("a"))),
      ImportNamed(Ident("c"), Some(Str("a-b"))),
      ImportNamespace(Ident("ns")) }

Imports == { Import(q, Bar) : q \in InjSeqs(ImportSpecifiers, MaxSpecs) }

ExportSpecifiers ==
    { ExportSpecNamed(Ident("a"), Ident("a")),
      ExportSpecNamed(Ident("b"), Ident("c")),
      ExportSpecNamespace(Ident("ns")),
      ExportSpecDefault(Ident("v")) }

\* export { .. } and export { .. } from 'bar'; a namespace or default specifier
\* only comes with a source
ExportLists ==
    { ExportNamed(None, q, Some(Bar)) : q \in InjSeqs(ExportSpecifiers, MaxSpecs) }
        \cup { ExportNamed(None, q, None) :
                   q \in InjSeqs({ sp \in ExportSpecifiers : sp.type = "ExportNamedSpec" }, MaxSpecs) }

ExportedVarDeclarators ==
    { VarDeclarator(PatIdent(Ident("a")), Some(Num(1))),
      VarDeclarator(PatIdent(Ident("b")), Some(CallExpr(CalleeExpr(Ident("require")), <<Bar>>))),
      VarDeclarator(PatIdent(Ident("c")), None),
      VarDeclarator(PatObject(<<"p", "q">>), Some(Ident("o"))) }

ExportDecls ==
    { ExportNamed(Some(VarDecl("const", q)), <<>>, None) :
          q \in InjSeqs(ExportedVarDeclarators, MaxSpecs) \ {<<>>} }
        \cup { ExportNamed(Some(FnDecl(Ident("g"), Function(<<ExprStmt(e)>>))), <<>>, None) :
                   e \in { Num(1), CallExpr(CalleeExpr(Ident("require")), <<Bar>>) } }
        \cup { ExportNamed(Some(ClassDecl(Ident("K"), Class(<<>>))), <<>>, None) }

DefaultDecls ==
    { DefaultExpr(e) : e \in Calls1 \cup { Num(1), Ident("x") } }
        \cup { DefaultFn(i, Function(<<ExprStmt(e)>>)) :
                   i \in { None, Some(Ident("g")) }, e \in { Num(1), CallExpr(CalleeImport, <<Bar>>) } }
        \cup { DefaultClass(i, Class(<<>>)) : i \in { None, Some(Ident("K")) } }

ExportDefaults == { ExportDefaultDecl(d) : d \in DefaultDecls }

Others == { ExportAll(Bar) }

\* every module item of the model
Items == { StmtItem(s) : s \in Stmts } \cup Imports \cup ExportLists \cup ExportDecls
             \cup ExportDefaults \cup Others

\* one or two items for each arm, from which the longer bodies are built
CoreItems ==
    { Import(<<>>, Bar),
      Import(<<ImportDefault(Ident("d"))>>, Bar),
      StmtItem(ExprStmt(CallExpr(CalleeExpr(Ident("require")), <<Bar>>))),
      StmtItem(ExprStmt(Ident("x"))),
      ExportDefaultDecl(DefaultExpr(Num(1))),
      ExportNamed(Some(VarDecl("const", <<VarDeclarator(PatIdent(Ident("a")), Some(Num(1)))>>)), <<>>, None),
      ExportNamed(Some(FnDecl(Ident("g"), Function(<<ExprStmt(Num(1))>>))), <<>>, None),
      ExportNamed(Some(ClassDecl(Ident("K"), Class(<<>>))), <<>>, None),
      ExportNamed(None, <<ExportSpecNamed(Ident("a"), Ident("a"))>>, None),
      ExportNamed(None, <<>>, None),
      ExportNamed(None, <<ExportSpecNamespace(Ident("ns"))>>, Some(Bar)),
      ExportAll(Bar) }

ModuleBodies == { <<item>> : item \in Items } \cup SeqsUpTo(CoreItems, MaxItems)

ScriptBodies == { <<s>> : s \in { ExprStmt(e) : e \in Calls1 } }

Programs ==
    { [kind |-> "Module", body |-> b] : b \in ModuleBodies }
        \cup { [kind |-> "Script", body |-> b] : b \in ScriptBodies }

(***************************************************************************)
(* State.                                                                  *)
(***************************************************************************)
VARIABLES
    input,        \* the program handed to visit_mut_program
    kind,         \* Program::Module or Program::Script
    body,         \* m.body: the items not yet drained, then the new body
    new_body,     \* the vector the loop builds
    origin,       \* for each element of new_body, the index of the input item that pushed it
    pc,           \* "loop" inside visit_mut_program, "done" after it returned
    tmp_counter   \* AsyncRequireTransform::tmp_counter

vars == <<input, kind, body, new_body, origin, pc, tmp_counter>>

\* number of input items the loop has consumed
Consumed == IF pc = "done" THEN Len(input.body) ELSE Len(input.body) - Len(body)

Init ==
    /\ input \in Programs
    /\ kind = input.kind
    /\ body = input.body
    /\ new_body = <<>>
    /\ origin = <<>>
    /\ pc = "loop"
    /\ tmp_counter = 0

\* Push that inserts at the front of the vector
PushFront(seq, items) == items \o seq

\* new_body.push(..) for each of items, in order
Push(seq, items) == seq \o items

\* one iteration of the loop: the head of body is drained and items are pushed
Emit(items) ==
    /\ new_body' = Push(new_body, items)
    /\ origin' = Push(origin, [k \in 1..Len(items) |-> Consumed + 1])
    /\ body' = Tail(body)
    /\ UNCHANGED <<input, kind, pc, tmp_counter>>

Draining(arm) == pc = "loop" /\ kind = "Module" /\ body # <<>> /\ ArmOf(Head(body)) = arm

ImportArm == Draining("Import") /\ Emit(import_items(Head(body)))

StmtArm == Draining("Stmt") /\ Emit(stmt_items(Head(body).stmt))

ExportDefaultArm == Draining("ExportDefaultDecl") /\ Emit(export_default_items(Head(body)))

ExportVarArm == Draining("ExportVar") /\ Emit(export_var_items(Head(body).decl[1]))

ExportFnArm == Draining("ExportFn") /\ Emit(export_fn_items(Head(body).decl[1]))

ExportOtherDeclArm == Draining("ExportOtherDecl") /\ Emit(export_other_decl_items(Head(body)))

ExportSpecifiersArm == Draining("ExportSpecifiers") /\ Emit(export_specifier_items(Head(body)))

OtherArm == Draining("Other") /\ Emit(other_items(Head(body)))

\* m.body = new_body
Finish ==
    /\ pc = "loop" /\ kind = "Module" /\ body = <<>>
    /\ body' = new_body
    /\ pc' = "done"
    /\ UNCHANGED <<input, kind, new_body, origin, tmp_counter>>

\* Program::Script(_) => {}
ScriptArm ==
    /\ pc = "loop" /\ kind = "Script"
    /\ pc' = "done"
    /\ UNCHANGED <<input, kind, body, new_body, origin, tmp_counter>>

Next ==
    \/ ImportArm
    \/ StmtArm
    \/ ExportDefaultArm
    \/ ExportVarArm
    \/ ExportFnArm
    \/ ExportOtherDeclArm
    \/ ExportSpecifiersArm
    \/ OtherArm
    \/ Finish
    \/ ScriptArm

Spec == Init /\ [][Next]_vars

TypeOK ==
    /\ pc \in {"loop", "done"}
    /\ kind \in {"Module", "Script"}
    /\ Len(origin) = Len(new_body)

(***************************************************************************)
(* Vocabulary of the properties.                                           *)
(***************************************************************************)
\* the elements of new_body pushed for input item i, in order
Tagged == [k \in 1..Len(new_body) |-> [item |-> new_body[k], from |-> origin[k]]]

OutFor(i) == MapSeq(LAMBDA t : t.item, SelectSeq(Tagged, LAMBDA t : t.from = i))

InModule == kind = "Module"

IsBareRequire(c) ==
    c.callee.type = "CalleeExpr" /\ c.callee.expr.type = "Ident" /\ c.callee.expr.sym = "require"

IsDynamicImport(c) == c.callee.type = "CalleeImport"

RECURSIVE ExprCalls(_)
RECURSIVE StmtCalls(_)

SeqCalls(Op(_), q) == UNION { Op(q[k]) : k \in 1..Len(q) }

FunctionCalls(f) == SeqCalls(StmtCalls, f.body)

ClassCalls(c) == UNION { FunctionCalls(c.body[k].function) : k \in 1..Len(c.body) }

\* every call expression of the subtree of e, at any depth
ExprCalls(e) ==
    CASE e.type = "Call" ->
            {e} \cup SeqCalls(ExprCalls, e.args)
                \cup (IF e.callee.type = "CalleeExpr" THEN ExprCalls(e.callee.expr) ELSE {})
      [] e.type = "Member" -> ExprCalls(e.obj)
      [] e.type = "Await" -> ExprCalls(e.arg)
      [] e.type = "Assign" -> ExprCalls(e.left) \cup ExprCalls(e.right)
      [] e.type = "Fn" -> FunctionCalls(e.function)
      [] e.type = "Class" -> ClassCalls(e.class)
      [] OTHER -> {}

StmtCalls(s) ==
    CASE s.type = "ExprStmt" -> ExprCalls(s.expr)
      [] s.type = "VarDecl" ->
            UNION { SeqCalls(ExprCalls, s.decls[k].init) : k \in 1..Len(s.decls) }
      [] s.type = "FnDecl" -> FunctionCalls(s.function)
      [] s.type = "ClassDecl" -> ClassCalls(s.class)
      [] OTHER -> {}

ItemCalls(item) == IF item.type = "Stmt" THEN StmtCalls(item.stmt) ELSE {}

RECURSIVE DeepExpr(_)
RECURSIVE DeepStmt(_)

DeepFunction(f) == [f EXCEPT !.body = MapSeq(DeepStmt, f.body)]

DeepMember(m) == [m EXCEPT !.function = DeepFunction(m.function)]

DeepClass(c) == [c EXCEPT !.body = MapSeq(DeepMember, c.body)]

\* e with every bare require callee and every dynamic import callee renamed,
\* at every depth, and nothing else changed
DeepExpr(e) ==
    CASE e.type = "Call" ->
            [e EXCEPT !.callee = IF IsDynamicImport(e) THEN CalleeExpr(Ident("__import__"))
                                 ELSE IF IsBareRequire(e) THEN CalleeExpr(Ident("__require__"))
                                 ELSE CalleeExpr(DeepExpr(e.callee.expr)),
                      !.args = MapSeq(DeepExpr, e.args)]
      [] e.type = "Member" -> [e EXCEPT !.obj = DeepExpr(e.obj)]
      [] e.type = "Await" -> [e EXCEPT !.arg = DeepExpr(e.arg)]
      [] e.type = "Assign" -> [e EXCEPT !.left = DeepExpr(e.left), !.right = DeepExpr(e.right)]
      [] e.type = "Fn" -> [e EXCEPT !.function = DeepFunction(e.function)]
      [] e.type = "Class" -> [e EXCEPT !.class = DeepClass(e.class)]
      [] OTHER -> e

DeepDeclarator(d) == [d EXCEPT !.init = MapSeq(DeepExpr, d.init)]

DeepStmt(s) ==
    CASE s.type = "ExprStmt" -> [s EXCEPT !.expr = DeepExpr(s.expr)]
      [] s.type = "VarDecl" -> [s EXCEPT !.decls = MapSeq(DeepDeclarator, s.decls)]
      [] s.type = "FnDecl" -> [s EXCEPT !.function = DeepFunction(s.function)]
      [] s.type = "ClassDecl" -> [s EXCEPT !.class = DeepClass(s.class)]
      [] OTHER -> s

\* the statement pushed for plain statement i is the input statement with
\* nothing but callees renamed
OnlyRenamed(i) ==
    /\ Len(OutFor(i)) = 1
    /\ OutFor(i)[1].type = "Stmt"
    /\ DeepStmt(OutFor(i)[1].stmt) = DeepStmt(input.body[i].stmt)

PlainStatements == { i \in 1..Consumed : InModule /\ input.body[i].type = "Stmt" }

\* <exports-object>.<name> = <right> as a statement
ExportsAssignment(name, right) ==
    StmtItem(ExprStmt(AssignExpr(
        MemberExpr(MemberExpr(Ident("module"), Ident("exports")), Ident(name)), right)))

\* await __require__(s)
AwaitedRequire(s) == AwaitExpr(CallExpr(CalleeExpr(Ident("__require__")), <<Str(s)>>))

(***************************************************************************)
(* C1.  In every plain top-level statement of a module, every call whose   *)
(* callee is the bare identifier require, at any nesting depth, is after   *)
(* the transform a call of __require__ with the same arguments and no      *)
(* await around it: no bare require call is left in the statement, and the *)
(* statement differs from the input in renamed callees only.               *)
(***************************************************************************)
C1_RequireRenamedEverywhere ==
    \A i \in PlainStatements :
        /\ OnlyRenamed(i)
        /\ \A c \in StmtCalls(OutFor(i)[1].stmt) : ~IsBareRequire(c)

(***************************************************************************)
(* C6.  In every plain top-level statement of a module, every dynamic      *)
(* import call import(x), at any nesting depth, is after the transform an  *)
(* ordinary call of __import__ with the same argument, and no dynamic      *)
(* import call is left in the statement.                                   *)
(***************************************************************************)
C6_ImportRenamedEverywhere ==
    \A i \in PlainStatements :
        /\ OnlyRenamed(i)
        /\ \A c \in StmtCalls(OutFor(i)[1].stmt) : ~IsDynamicImport(c)

(***************************************************************************)
(* C2.  An import declaration with n >= 1 specifiers and source s gives    *)
(* exactly one declaration statement with n declarators, the j-th for the  *)
(* j-th specifier: a default or namespace specifier x binds x to           *)
(* await __require__(s); a named specifier importing a as local b binds b  *)
(* (a when unaliased) to (await __require__(s)).a.  Every declarator has   *)
(* its own awaited call with s as sole argument.                           *)
(***************************************************************************)
ImportsWithSpecifiers ==
    { i \in 1..Consumed :
        InModule /\ input.body[i].type = "Import" /\ Len(input.body[i].specifiers) >= 1 }

C2_ImportedProperty(spec) ==
    IF spec.imported = None THEN spec.local.sym
    ELSE IF spec.imported[1].type = "Ident" THEN spec.imported[1].sym ELSE spec.imported[1].value

C2_Initializer(spec, s) ==
    IF spec.type = "ImportNamed"
    THEN MemberExpr(AwaitedRequire(s), Ident(C2_ImportedProperty(spec)))
    ELSE AwaitedRequire(s)

C2_ImportDeclaration ==
    \A i \in ImportsWithSpecifiers :
        LET decl == input.body[i]
            out == OutFor(i)
        IN  /\ Len(out) = 1
            /\ out[1].type = "Stmt"
            /\ out[1].stmt.type = "VarDecl"
            /\ Len(out[1].stmt.decls) = Len(decl.specifiers)
            /\ \A j \in 1..Len(decl.specifiers) :
                   /\ out[1].stmt.decls[j].name = PatIdent(decl.specifiers[j].local)
                   /\ out[1].stmt.decls[j].init
                          = Some(C2_Initializer(decl.specifiers[j], decl.src.value))

C2_Witness ==
    /\ pc = "done"
    /\ \E i \in ImportsWithSpecifiers :
           /\ Len(input.body[i].specifiers) = 2
           /\ input.body[i].specifiers[1].type = "ImportNamed"
           /\ input.body[i].specifiers[1].imported # None
           /\ input.body[i].specifiers[2].type = "ImportNamespace"
           /\ Len(body[1].stmt.decls) = 2

(***************************************************************************)
(* C3.  A named export that wraps an inline declaration (a variable        *)
(* declaration with any binding patterns, a function declaration or a      *)
(* class declaration) gives the declaration unchanged as a statement and   *)
(* then exactly one assignment <exports-object>.<name> = <name> for each   *)
(* name the declaration binds, in order; no export declaration is left.    *)
(***************************************************************************)
PatNames(pat) == IF pat.type = "PatIdent" THEN <<pat.id.sym>> ELSE pat.props

BoundNames(decl) ==
    IF decl.type = "VarDecl"
    THEN Flatten(MapSeq(LAMBDA vd : PatNames(vd.name), decl.decls))
    ELSE <<decl.ident.sym>>

ExportsWithDecl ==
    { i \in 1..Consumed :
        InModule /\ input.body[i].type = "ExportNamed" /\ input.body[i].decl # None }

C3_ExportedDeclaration ==
    \A i \in ExportsWithDecl :
        LET decl == input.body[i].decl[1]
        IN  OutFor(i) = <<StmtItem(decl)>>
                            \o MapSeq(LAMBDA name : ExportsAssignment(name, Ident(name)),
                                      BoundNames(decl))

(***************************************************************************)
(* C4.  A top-level module declaration of a kind the transform does not    *)
(* translate (a namespace re-export, an export-all) never silently         *)
(* vanishes: the output has at least one item for it other than an empty   *)
(* placeholder.  (The transform has no failure outcome.)                   *)
(***************************************************************************)
Untranslated(item) ==
    \/ item.type = "ExportAll"
    \/ /\ item.type = "ExportNamed"
       /\ item.decl = None
       /\ \E j \in 1..Len(item.specifiers) : item.specifiers[j].type = "ExportNamespaceSpec"

C4_NothingVanishes ==
    \A i \in 1..Consumed :
        (InModule /\ Untranslated(input.body[i]))
            => \E k \in 1..Len(OutFor(i)) : OutFor(i)[k] # empty_export

(***************************************************************************)
(* C5.  The output of the transform of a module has no import or export    *)
(* declaration, no call of the bare identifier require and no dynamic      *)
(* import call anywhere, and transforming it again changes nothing.        *)
(***************************************************************************)
C5_Idempotent ==
    (pc = "done" /\ InModule) =>
        /\ \A k \in 1..Len(body) : body[k].type = "Stmt"
        /\ \A k \in 1..Len(body) :
               \A c \in ItemCalls(body[k]) : ~IsBareRequire(c) /\ ~IsDynamicImport(c)
        /\ visit_mut_program([kind |-> "Module", body |-> body]).body = body

(***************************************************************************)
(* C7.  A named export without an inline declaration, export { a, b as c } *)
(* with k specifiers, gives exactly k assignment statements, the j-th      *)
(* being <exports-object>.<exported j> = <local j>, and nothing else.      *)
(***************************************************************************)
ExportsOfNames ==
    { i \in 1..Consumed :
        /\ InModule
        /\ input.body[i].type = "ExportNamed"
        /\ input.body[i].decl = None
        /\ \A j \in 1..Len(input.body[i].specifiers) :
               input.body[i].specifiers[j].type = "ExportNamedSpec" }

C7_ExportList ==
    \A i \in ExportsOfNames :
        LET specs == input.body[i].specifiers
        IN  /\ Len(OutFor(i)) = Len(specs)
            /\ \A j \in 1..Len(specs) :
                   OutFor(i)[j] = ExportsAssignment(specs[j].exported.sym, Ident(specs[j].orig.sym))

C7_Witness ==
    /\ pc = "done"
    /\ \E i \in ExportsOfNames :
           /\ Len(input.body[i].specifiers) = 2
           /\ input.body[i].specifiers[2].orig # input.body[i].specifiers[2].exported
           /\ Len(body) = 2

(***************************************************************************)
(* C8.  A default export gives exactly one assignment statement to the     *)
(* default property of the exports object, whose right-hand side is the    *)
(* exported expression unchanged or, for a function or class declaration,  *)
(* the function or class expression with the same optional name and body.  *)
(***************************************************************************)
DefaultExports == { i \in 1..Consumed : InModule /\ input.body[i].type = "ExportDefaultDecl" }

C8_Payload(decl) ==
    IF decl.type = "DefaultExpr" THEN decl.expr
    ELSE IF decl.type = "DefaultFn"
         THEN [type |-> "Fn", ident |-> decl.ident, function |-> decl.function]
         ELSE [type |-> "Class", ident |-> decl.ident, class |-> decl.class]

C8_DefaultExport ==
    \A i \in DefaultExports :
        OutFor(i) = <<ExportsAssignment("default", C8_Payload(input.body[i].decl))>>

C8_Witness ==
    /\ pc = "done"
    /\ \E i \in DefaultExports :
           /\ input.body[i].decl.type = "DefaultFn"
           /\ input.body[i].decl.ident # None
           /\ body[i].stmt.expr.right.type = "Fn"

(***************************************************************************)
(* C9.  The body built so far is, at every point of the pass, the          *)
(* concatenation in input order of the expansions of the items consumed:   *)
(* what item i produced precedes what item j > i produced, the items of    *)
(* one input item are adjacent, and the final body is that concatenation.  *)
(***************************************************************************)
C9_OrderPreserved ==
    InModule =>
        /\ Len(origin) = Len(new_body)
        /\ \A k \in 1..Len(origin) : origin[k] \in 1..Consumed
        /\ \A k \in 1..(Len(origin) - 1) : origin[k] <= origin[k + 1]
        /\ \A i \in 1..Consumed : OutFor(i) = Expand(input.body[i])
        /\ new_body = Flatten([i \in 1..Consumed |-> Expand(input.body[i])])
        /\ pc = "done" => body = new_body

C9_Witness ==
    /\ pc = "done" /\ InModule
    /\ Len(input.body) = 3
    /\ input.body[1].type = "Stmt"
    /\ input.body[2].type = "ExportNamed"
    /\ input.body[3].type = "Import"
    /\ origin = <<1, 2, 2, 3>>

ExportsWithoutDecl ==
    { i \in 1..Len(input.body) :
        input.body[i].type = "ExportNamed" /\ input.body[i].decl = None }

====
